---- MODULE Spec2Model ----
(***************************************************************************)
(* Speed Camera API (src/main.py): the cameras table and the five request  *)
(* handlers that read and write it, behind FastAPI's request validation.   *)
(*                                                                         *)
(* Strings are sequences of characters, so that length limits, the zipcode *)
(* pattern, str.isdigit and the LIKE pattern of the search are computed.   *)
(* A request is handled by a worker thread: it is received, validated by   *)
(* the framework against the declared models, run by its handler, and the  *)
(* session is closed when the response is sent.                            *)
(***************************************************************************)
EXTENDS Integers, Sequences, FiniteSets

\* ------------------------------------------------------------------ bounds

\* Largest id the table hands out in the model (rowids grow without bound).
MaxId == 2
\* Worker threads serving requests at the same time in SpecConcurrentCreate.
NumThreads == 2

\* --------------------------------------------------------------- constants

MinStreetLen == 1
MaxStreetLen == 100
ZipLen == 5
MinSpeed == 5
MaxSpeed == 85

valid_directions == {"N", "S", "E", "W", "NE", "NW", "SE", "SW"}

Fields == {"cross_street_1", "cross_street_2", "zipcode", "speed_limit", "direction"}

\* -------------------------------------------------------------- characters

\* ASCII '0'..'9' (the ones the inputs use).
AsciiDigits == {"0", "1", "2", "3", "4", "5"}
\* A decimal digit outside ASCII (category Nd), e.g. U+0663.
UnicodeDecimals == {"ARABIC_INDIC_3"}
\* A digit that is not a decimal digit (category No), e.g. U+00B2.
UnicodeOtherDigits == {"SUPERSCRIPT_2"}

\* The regular expression class \d of the pattern ^\d{5}$: every decimal
\* digit, ASCII or not.
ReDigit(c) == c \in AsciiDigits \cup UnicodeDecimals

\* A character for which str.isdigit() is true.
IsDigitChar(c) == c \in AsciiDigits \cup UnicodeDecimals \cup UnicodeOtherDigits

\* str.isdigit(): non-empty and every character a digit.
isdigit(s) == Len(s) > 0 /\ \A i \in 1..Len(s) : IsDigitChar(s[i])

\* The pattern ^\d{5}$ of CameraCreate, CameraUpdate and the search query.
ZipPattern(s) == Len(s) = ZipLen /\ \A i \in 1..Len(s) : ReDigit(s[i])

\* lower() of one character and of a string.
LowerChar(c) == CASE c = "A" -> "a" [] c = "B" -> "b" [] c = "C" -> "c" [] OTHER -> c
lower(s) == [i \in 1..Len(s) |-> LowerChar(s[i])]

\* SQL LIKE: '%' matches any run of characters, '_' any one character.
RECURSIVE LikeMatch(_, _)
LikeMatch(p, s) ==
    IF p = <<>> THEN s = <<>>
    ELSE IF Head(p) = "%"
         THEN LikeMatch(Tail(p), s) \/ (s # <<>> /\ LikeMatch(p, Tail(s)))
         ELSE /\ s # <<>>
              /\ (Head(p) = "_" \/ Head(p) = Head(s))
              /\ LikeMatch(Tail(p), Tail(s))

\* column.ilike(pattern): lower(column) LIKE lower(pattern).
ilike(col, pattern) == LikeMatch(lower(pattern), lower(col))

\* ------------------------------------------------------------------ inputs

Repeat(c, n) == [i \in 1..n |-> c]

Street1Values == {<<"A", "b">>, <<"a", "b">>}
EmptyStreet == <<>>
LongStreet == Repeat("a", MaxStreetLen + 1)

ZipAscii == <<"1", "0", "0", "0", "1">>
ZipArabic == Repeat("ARABIC_INDIC_3", ZipLen)
ZipValues == {ZipAscii, ZipArabic}
ZipSuperscript == Repeat("SUPERSCRIPT_2", ZipLen)
BadZips == {<<"1", "2", "3", "4">>, <<"1", "2", "3", "4", "a">>,
            <<"1", "2", "3", "4", "5", "0">>, ZipSuperscript}

SpeedValues == {MinSpeed, MaxSpeed}
BadSpeeds == {MinSpeed - 1, MaxSpeed + 1}
BadDirections == {"NNE"}

SearchTerms == {<<"a">>, <<"B">>, <<"c">>, <<"a", "b">>, <<"%">>, <<"_">>, <<"b", "_">>}

\* ---------------------------------------------------------- request bodies

\* A parsed JSON body: fields_set is pydantic's model_fields_set (the keys the
\* client sent), nulls the keys sent as null; a key outside fields_set holds a
\* placeholder that nothing reads.
NoBody ==
    [fields_set |-> {}, nulls |-> {},
     cross_street_1 |-> <<>>, cross_street_2 |-> <<>>, zipcode |-> <<>>,
     speed_limit |-> 0, direction |-> ""]

FullBody(c1, c2, z, sp, d) ==
    [fields_set |-> Fields, nulls |-> {},
     cross_street_1 |-> c1, cross_street_2 |-> c2, zipcode |-> z,
     speed_limit |-> sp, direction |-> d]

\* body with key f sent with value v.
With(body, f, v) ==
    [body EXCEPT ![f] = v, !.fields_set = @ \cup {f}, !.nulls = @ \ {f}]

\* body with key f sent as null.
WithNull(body, f) ==
    [body EXCEPT ![f] = NoBody[f], !.fields_set = @ \cup {f}, !.nulls = @ \cup {f}]

\* body with key f not sent.
Without(body, f) ==
    [body EXCEPT ![f] = NoBody[f], !.fields_set = @ \ {f}, !.nulls = @ \ {f}]

BaseBody == FullBody(<<"A", "b">>, <<"c">>, ZipAscii, MinSpeed, "N")

\* The second cross street and the direction the requests pair: the model's
\* cameras face N at "c" and SW at "b%".
Street2Directions == {<<<<"c">>, "N">>, <<<<"b", "%">>, "SW">>}

ValidCreateBodies ==
    {FullBody(c1, cd[1], z, sp, cd[2]) :
        c1 \in Street1Values, cd \in Street2Directions, z \in ZipValues,
        sp \in SpeedValues}

InvalidCreateBodies ==
    {With(BaseBody, "cross_street_1", s) : s \in {EmptyStreet, LongStreet}}
    \cup {With(BaseBody, "cross_street_2", EmptyStreet)}
    \cup {With(BaseBody, "zipcode", z) : z \in BadZips}
    \cup {With(BaseBody, "speed_limit", sp) : sp \in BadSpeeds}
    \cup {With(BaseBody, "direction", d) : d \in BadDirections}
    \cup {Without(BaseBody, "direction"), WithNull(BaseBody, "zipcode")}

ValidUpdateBodies ==
    {NoBody}
    \cup {With(NoBody, "cross_street_1", s) : s \in Street1Values}
    \cup {With(NoBody, "zipcode", z) : z \in ZipValues}
    \cup {With(NoBody, "speed_limit", sp) : sp \in SpeedValues}
    \cup {With(With(NoBody, "cross_street_2", cd[1]), "direction", cd[2]) :
            cd \in Street2Directions}
    \cup {With(With(NoBody, "cross_street_1", <<"a", "b">>), "zipcode", ZipArabic),
          FullBody(<<"a", "b">>, <<"b", "%">>, ZipAscii, MaxSpeed, "SW")}

NullUpdateBodies ==
    {WithNull(NoBody, "cross_street_1"),
     WithNull(NoBody, "speed_limit"),
     WithNull(With(NoBody, "speed_limit", MaxSpeed), "direction")}

InvalidUpdateBodies ==
    {With(NoBody, "cross_street_2", s) : s \in {EmptyStreet, LongStreet}}
    \cup {With(NoBody, "zipcode", ZipSuperscript)}
    \cup {With(NoBody, "speed_limit", sp) : sp \in BadSpeeds}
    \cup {With(With(NoBody, "speed_limit", MaxSpeed), "direction", "NNE")}

\* ---------------------------------------------------------------- requests

NoReq ==
    [op |-> "none", camera_id |-> 0, body |-> NoBody,
     zipcode |-> <<>>, has_street |-> FALSE, street |-> <<>>]

CreateReq(b) == [NoReq EXCEPT !.op = "create", !.body = b]
UpdateReq(id, b) == [NoReq EXCEPT !.op = "update", !.camera_id = id, !.body = b]
DeleteReq(id) == [NoReq EXCEPT !.op = "delete", !.camera_id = id]
ListReq(z) == [NoReq EXCEPT !.op = "list", !.zipcode = z]
SearchReq(z, s) ==
    [NoReq EXCEPT !.op = "search", !.zipcode = z, !.has_street = TRUE, !.street = s]
SearchNoStreetReq(z) == [NoReq EXCEPT !.op = "search", !.zipcode = z]

Ids == 1..MaxId

CreateRequests == {CreateReq(b) : b \in ValidCreateBodies \cup InvalidCreateBodies}

UpdateRequests ==
    {UpdateReq(id, b) : id \in Ids, b \in ValidUpdateBodies \cup NullUpdateBodies}
    \cup {UpdateReq(1, b) : b \in InvalidUpdateBodies}

DeleteRequests == {DeleteReq(id) : id \in Ids}

ListRequests == {ListReq(z) : z \in ZipValues \cup BadZips}

SearchRequests ==
    {SearchReq(z, s) : z \in ZipValues, s \in SearchTerms}
    \cup {SearchReq(z, <<"a">>) : z \in BadZips}
    \cup {SearchReq(ZipAscii, EmptyStreet), SearchNoStreetReq(ZipAscii)}

Requests ==
    CreateRequests \cup UpdateRequests \cup DeleteRequests
    \cup ListRequests \cup SearchRequests

\* --------------------------------------------------------------- responses

NoResp == [status |-> 0, detail |-> "", cameras |-> {}]

Response(status, detail, rows) ==
    [status |-> status, detail |-> detail, cameras |-> rows]

InvalidZipDetail == "Invalid zipcode format. Must be 5 digits."
ConflictDetail == "Camera already exists at"
NotFoundDetail == "Camera not found"
DeletedMessage == "Camera deleted successfully"
ValidationDetail == "RequestValidationError"
ServerErrorDetail == "Internal Server Error"

\* ------------------------------------------------------------------- state

VARIABLES
    cameras,    \* the rows of table "cameras"
    thread      \* per worker thread: where it is, its request, its response

vars == <<cameras, thread>>

Threads == 1..NumThreads

\* The thread that serves every request when requests are handled one at a
\* time.
MainThread == 1

Idle == [pc |-> "idle", req |-> NoReq, resp |-> NoResp]

\* ------------------------------------------------------- request validation

\* One field of CameraCreate / CameraUpdate against its Field(...) constraints
\* and the direction validator.
FieldValid(f, v) ==
    CASE f \in {"cross_street_1", "cross_street_2"} ->
            Len(v) >= MinStreetLen /\ Len(v) <= MaxStreetLen
      [] f = "zipcode" -> ZipPattern(v)
      [] f = "speed_limit" -> v >= MinSpeed /\ v <= MaxSpeed
      [] f = "direction" -> v \in valid_directions

\* CameraCreate: every field required, none null, each within its constraint.
CameraCreateValid(body) ==
    /\ body.fields_set = Fields
    /\ body.nulls = {}
    /\ \A f \in Fields : FieldValid(f, body[f])

\* CameraUpdate: every field Optional with default None; a supplied value that
\* is not null is held to the same constraint.
CameraUpdateValid(body) ==
    \A f \in body.fields_set \ body.nulls : FieldValid(f, body[f])

\* The Query(...) declarations of the search: street required with
\* min_length=1, zipcode against the pattern.
SearchQueryValid(req) ==
    /\ req.has_street
    /\ Len(req.street) >= MinStreetLen
    /\ ZipPattern(req.zipcode)

\* What FastAPI checks before it calls the handler.
RequestValid(req) ==
    CASE req.op = "create" -> CameraCreateValid(req.body)
      [] req.op = "update" -> CameraUpdateValid(req.body)
      [] req.op = "search" -> SearchQueryValid(req)
      [] OTHER -> TRUE

\* ------------------------------------------------------------------- table

\* A row of CameraDB; nulls is the set of columns holding NULL.
Row(id, body) ==
    [id |-> id,
     cross_street_1 |-> body.cross_street_1,
     cross_street_2 |-> body.cross_street_2,
     zipcode |-> body.zipcode,
     speed_limit |-> body.speed_limit,
     direction |-> body.direction,
     nulls |-> body.nulls]

Max(S) == CHOOSE x \in S : \A y \in S : y <= x

\* Variant: the id taken from the number of rows.
NextIdByCount(rows) == Cardinality(rows) + 1

\* The id an INSERT without id receives from the Integer primary key: one
\* more than the largest id in the table (SQLite, the default DATABASE_URL).
NextId(rows) == IF rows = {} THEN 1 ELSE Max({r.id : r \in rows}) + 1

\* Variant: columns that accept NULL.
NotNullUnchecked(row) == FALSE

\* nullable=False on every column: a flush that would write NULL fails.
NotNullViolation(row) == row.nulls # {}

\* Variant: a unique constraint on the intersection.
UniqueViolationEnforced(rows, row) ==
    \E r \in rows : /\ r.cross_street_1 = row.cross_street_1
                    /\ r.cross_street_2 = row.cross_street_2
                    /\ r.zipcode = row.zipcode

\* CameraDB declares no unique constraint on the intersection: an INSERT is
\* never refused for repeating one.
UniqueViolation(rows, row) == FALSE

\* query(CameraDB).filter(CameraDB.id == camera_id).first()
GetById(rows, id) == {r \in rows : r.id = id}

\* Variant: the duplicate query comparing the streets without regard to case.
FindDuplicateIgnoringCase(rows, body) ==
    {r \in rows : /\ lower(r.cross_street_1) = lower(body.cross_street_1)
                  /\ lower(r.cross_street_2) = lower(body.cross_street_2)
                  /\ r.zipcode = body.zipcode}

\* The duplicate query of create_camera: '==' on all three columns.
FindDuplicate(rows, body) ==
    {r \in rows : /\ r.cross_street_1 = body.cross_street_1
                  /\ r.cross_street_2 = body.cross_street_2
                  /\ r.zipcode = body.zipcode}

\* Variant: every field of the body written, the unset ones with their
\* placeholder.
ApplyUpdateOverwritesUnset(row, body) ==
    [k \in DOMAIN row |->
        IF k = "nulls" THEN body.nulls
        ELSE IF k = "id" THEN row.id
        ELSE body[k]]

\* model_dump(exclude_unset=True) and the setattr loop of update_camera.
ApplyUpdate(row, body) ==
    [k \in DOMAIN row |->
        IF k = "nulls" THEN (row.nulls \ body.fields_set) \cup body.nulls
        ELSE IF k \in body.fields_set THEN body[k]
        ELSE row[k]]

\* Variant: the delete never committed.
DeleteRowUncommitted(rows, row) == rows

\* db.delete(db_camera); db.commit()
DeleteRow(rows, row) == rows \ {row}

\* The filter of get_cameras_by_zipcode.
ByZipcode(rows, zipcode) == {r \in rows : r.zipcode = zipcode}

\* The filters of search_cameras_by_street.
SearchRows(rows, zipcode, street) ==
    LET pattern == <<"%">> \o street \o <<"%">>
    IN  {r \in rows : /\ r.zipcode = zipcode
                      /\ \/ ilike(r.cross_street_1, pattern)
                         \/ ilike(r.cross_street_2, pattern)}

\* The handlers' own zipcode check.
ZipcodeCheck(zipcode) == isdigit(zipcode) /\ Len(zipcode) = ZipLen

\* ----------------------------------------------------------------- actions

\* The table as create_all leaves it in a fresh database. The rows that
\* startup_event seeds into an empty table are valid rows at distinct
\* intersections, which a run of create requests stores as well.
Init ==
    /\ cameras = {}
    /\ thread = [t \in Threads |-> Idle]

\* Thread t answers request req.
Finish(t, req, resp) ==
    thread' = [thread EXCEPT ![t] = [pc |-> "responded", req |-> req, resp |-> resp]]

\* The body or query fails its declared model: FastAPI answers 422 and the
\* handler is not called.
RequestValidationError(t, req) ==
    /\ thread[t].pc = "idle"
    /\ ~RequestValid(req)
    /\ Finish(t, req, Response(422, ValidationDetail, {}))
    /\ UNCHANGED cameras

\* Thread t is free and req passes validation: the handler runs.
Ready(t, req) ==
    /\ thread[t].pc = "idle"
    /\ RequestValid(req)

get_cameras_by_zipcode(t, req) ==
    /\ Ready(t, req)
    /\ IF ~ZipcodeCheck(req.zipcode)
       THEN Finish(t, req, Response(400, InvalidZipDetail, {}))
       ELSE Finish(t, req, Response(200, "", ByZipcode(cameras, req.zipcode)))
    /\ UNCHANGED cameras

search_cameras_by_street(t, req) ==
    /\ Ready(t, req)
    /\ IF ~ZipcodeCheck(req.zipcode)
       THEN Finish(t, req, Response(400, InvalidZipDetail, {}))
       ELSE Finish(t, req, Response(200, "", SearchRows(cameras, req.zipcode, req.street)))
    /\ UNCHANGED cameras

\* db.add(db_camera); db.commit(); db.refresh(db_camera); return db_camera
InsertCamera(t, req) ==
    LET row == Row(NextId(cameras), req.body) IN
    /\ row.id <= MaxId
    /\ IF NotNullViolation(row) \/ UniqueViolation(cameras, row)
       THEN /\ Finish(t, req, Response(500, ServerErrorDetail, {}))
            /\ UNCHANGED cameras
       ELSE /\ cameras' = cameras \cup {row}
            /\ Finish(t, req, Response(201, "", GetById(cameras', row.id)))

\* The whole handler, run without another request in between.
create_camera(t, req) ==
    /\ Ready(t, req)
    /\ IF FindDuplicate(cameras, req.body) # {}
       THEN /\ Finish(t, req, Response(400, ConflictDetail, {}))
            /\ UNCHANGED cameras
       ELSE InsertCamera(t, req)

update_camera(t, req) ==
    LET found == GetById(cameras, req.camera_id) IN
    /\ Ready(t, req)
    /\ IF found = {}
       THEN /\ Finish(t, req, Response(404, NotFoundDetail, {}))
            /\ UNCHANGED cameras
       ELSE LET db_camera == CHOOSE r \in found : TRUE
                updated == ApplyUpdate(db_camera, req.body)
            IN  IF NotNullViolation(updated)
                THEN /\ Finish(t, req, Response(500, ServerErrorDetail, {}))
                     /\ UNCHANGED cameras
                ELSE /\ cameras' = (cameras \ {db_camera}) \cup {updated}
                     /\ Finish(t, req, Response(200, "", GetById(cameras', updated.id)))

delete_camera(t, req) ==
    LET found == GetById(cameras, req.camera_id) IN
    /\ Ready(t, req)
    /\ IF found = {}
       THEN /\ Finish(t, req, Response(404, NotFoundDetail, {}))
            /\ UNCHANGED cameras
       ELSE /\ cameras' = DeleteRow(cameras, CHOOSE r \in found : TRUE)
            /\ Finish(t, req, Response(200, DeletedMessage, {}))

\* The response is sent and get_db's finally closes the session: the thread
\* is free again.
get_db(t) ==
    /\ thread[t].pc = "responded"
    /\ thread' = [thread EXCEPT ![t] = Idle]
    /\ UNCHANGED cameras

\* Requests handled one at a time: one thread, each handler run whole.
Next ==
    \/ \E r \in Requests : RequestValidationError(MainThread, r)
    \/ \E r \in ListRequests : get_cameras_by_zipcode(MainThread, r)
    \/ \E r \in SearchRequests : search_cameras_by_street(MainThread, r)
    \/ \E r \in CreateRequests : create_camera(MainThread, r)
    \/ \E r \in UpdateRequests : update_camera(MainThread, r)
    \/ \E r \in DeleteRequests : delete_camera(MainThread, r)
    \/ get_db(MainThread)

Spec == Init /\ [][Next]_vars

\* ------------------------------------------------------ concurrent creates

\* Handlers are plain def functions, which FastAPI runs on a thread pool:
\* several create requests are in flight at once, each with its own session,
\* and another thread's statements run between the duplicate query and the
\* INSERT of create_camera.

ConcurrentCreateRequests ==
    {CreateReq(FullBody(c1, <<"c">>, ZipAscii, sp, "N")) :
        c1 \in Street1Values, sp \in SpeedValues}

Receive(t, req) ==
    /\ Ready(t, req)
    /\ thread' = [thread EXCEPT ![t] = [pc |-> "received", req |-> req, resp |-> NoResp]]
    /\ UNCHANGED cameras

\* The duplicate query and the conflict answer.
create_camera_check(t) ==
    /\ thread[t].pc = "received"
    /\ IF FindDuplicate(cameras, thread[t].req.body) # {}
       THEN Finish(t, thread[t].req, Response(400, ConflictDetail, {}))
       ELSE thread' = [thread EXCEPT ![t].pc = "checked"]
    /\ UNCHANGED cameras

\* The INSERT, its commit and the refresh.
create_camera_insert(t) ==
    /\ thread[t].pc = "checked"
    /\ InsertCamera(t, thread[t].req)

NextConcurrentCreate ==
    \E t \in Threads :
        \/ \E r \in ConcurrentCreateRequests : Receive(t, r)
        \/ create_camera_check(t)
        \/ create_camera_insert(t)
        \/ get_db(t)

SpecConcurrentCreate == Init /\ [][NextConcurrentCreate]_vars

\* ------------------------------------------------------------- properties

\* The request and response of the thread that serves requests one at a time.
req == thread[MainThread].req
resp == thread[MainThread].resp

\* The main thread has answered a request to operation op.
Answered(op) == thread[MainThread].pc = "responded" /\ req.op = op

\* This step is the handling of a request to operation op.
Handles(op) ==
    /\ thread[MainThread].pc = "idle"
    /\ thread'[MainThread].pc = "responded"
    /\ thread'[MainThread].req.op = op

\* Row r stands at the intersection that body b names: exact equality of the
\* two cross streets and the zipcode.
SameIntersection(r, b) ==
    /\ r.cross_street_1 = b.cross_street_1
    /\ r.cross_street_2 = b.cross_street_2
    /\ r.zipcode = b.zipcode

\* sub occurs in s as a run of consecutive characters.
Contains(s, sub) ==
    \E i \in 1..(Len(s) - Len(sub) + 1) : SubSeq(s, i, i + Len(sub) - 1) = sub

\* Exactly five characters '0'..'9'.
AsciiZip(z) == Len(z) = ZipLen /\ \A i \in 1..Len(z) : z[i] \in AsciiDigits

\* C1: with requests handled one at a time, no two stored cameras have the
\* same (cross_street_1, cross_street_2, zipcode) triple.
C1_NoDuplicateIntersection ==
    \A r1, r2 \in cameras : SameIntersection(r1, r2) => r1 = r2

\* C2: a create whose triple equals that of a stored camera exactly fails with
\* the conflict error and leaves the stored cameras as they were; a create
\* whose triple differs from every stored camera's is not rejected as a
\* conflict.
C2_CreateConflict ==
    [][Handles("create") /\ RequestValid(thread'[MainThread].req) =>
        LET body == thread'[MainThread].req.body
            answer == thread'[MainThread].resp
        IN  IF \E r \in cameras : SameIntersection(r, body)
            THEN /\ answer.status = 400
                 /\ answer.detail = ConflictDetail
                 /\ cameras' = cameras
            ELSE answer.detail # ConflictDetail]_vars

\* A create was refused as a conflict while a camera is stored.
C2_Witness ==
    /\ Answered("create")
    /\ resp.status = 400
    /\ resp.detail = ConflictDetail
    /\ \E r \in cameras : SameIntersection(r, req.body)

\* C3: a successful update that supplies values for a subset of the five
\* fields sets exactly those fields of the camera, keeps its id and its other
\* fields, keeps every other camera, and returns the merged record.
C3_UpdateMerges ==
    [][Handles("update") /\ thread'[MainThread].resp.status = 200 =>
        LET r == thread'[MainThread].req
            answer == thread'[MainThread].resp
        IN  \E old \in cameras : \E new \in cameras' :
                /\ old.id = r.camera_id
                /\ new.id = old.id
                /\ \A f \in Fields :
                       new[f] = IF f \in r.body.fields_set THEN r.body[f] ELSE old[f]
                /\ cameras' \ {new} = cameras \ {old}
                /\ answer.cameras = {new}]_vars

\* An update of some but not all fields succeeded while another camera is
\* stored.
C3_Witness ==
    /\ Answered("update")
    /\ resp.status = 200
    /\ req.body.fields_set \notin {{}, Fields}
    /\ \E other \in cameras : other.id # req.camera_id
    /\ \E r \in cameras : r.id = req.camera_id /\ r.speed_limit = MaxSpeed /\ r.direction = "SW"

\* C4: a delete of an id that is not stored fails with not-found and leaves
\* the store as it was; a delete of a stored id removes that camera and no
\* other, the store stays as it is until the next request is handled, and an
\* update or delete of an id that is not stored fails with not-found.
C4_Delete ==
    [][/\ Handles("delete") =>
            LET id == thread'[MainThread].req.camera_id
                answer == thread'[MainThread].resp
            IN  IF \A r \in cameras : r.id # id
                THEN /\ answer.status = 404
                     /\ answer.detail = NotFoundDetail
                     /\ cameras' = cameras
                ELSE /\ answer.status = 200
                     /\ cameras' = {r \in cameras : r.id # id}
                     /\ Cardinality(cameras') = Cardinality(cameras) - 1
       /\ thread[MainThread].pc = "responded" => cameras' = cameras
       /\ /\ Handles("update")
          /\ RequestValid(thread'[MainThread].req)
          /\ \A r \in cameras : r.id # thread'[MainThread].req.camera_id
          => /\ thread'[MainThread].resp.status = 404
             /\ thread'[MainThread].resp.detail = NotFoundDetail
             /\ cameras' = cameras]_vars

\* A stored camera was deleted and another one is still stored.
C4_Witness ==
    /\ Answered("delete")
    /\ resp.status = 200
    /\ cameras # {}
    /\ \A r \in cameras : r.id # req.camera_id

\* C5: for a valid zipcode Z and a non-empty term S, the search returns a
\* stored camera if and only if its zipcode equals Z and S, compared case-insensitively, is a literal substring of one of its
\* cross streets.
C5_SearchLiteralSubstring ==
    Answered("search") /\ AsciiZip(req.zipcode) /\ Len(req.street) > 0 /\ req.has_street =>
        resp.cameras =
            {r \in cameras :
                /\ r.zipcode = req.zipcode
                /\ \/ Contains(lower(r.cross_street_1), lower(req.street))
                   \/ Contains(lower(r.cross_street_2), lower(req.street))}

\* C6: every request rejected because a field fails validation is answered
\* with status 400.
C6_ValidationStatus400 ==
    /\ thread[MainThread].pc = "responded"
    /\ \/ ~RequestValid(req)
       \/ req.op \in {"list", "search"} /\ ~ZipcodeCheck(req.zipcode)
    => resp.status = 400

\* C7: list-by-zipcode queries the store if and only if the zipcode is exactly
\* 5 ASCII digits, and fails with the invalid-zipcode error otherwise; for an
\* accepted zipcode it returns exactly the stored cameras with that zipcode.
C7_ListAsciiZipOnly ==
    Answered("list") =>
        IF AsciiZip(req.zipcode)
        THEN /\ resp.status = 200
             /\ resp.cameras = {r \in cameras : r.zipcode = req.zipcode}
        ELSE /\ resp.status = 400
             /\ resp.detail = InvalidZipDetail

\* C8: a successful create adds exactly one camera, with the input's five
\* fields and an id no other stored camera has, returns that record, leaves
\* the cameras stored before unchanged, and a lookup by the returned id finds
\* the same record.
C8_CreateAddsOne ==
    [][Handles("create") /\ thread'[MainThread].resp.status = 201 =>
        LET body == thread'[MainThread].req.body
            answer == thread'[MainThread].resp
        IN  \E row \in cameras' :
                /\ row \notin cameras
                /\ cameras' = cameras \cup {row}
                /\ Cardinality(cameras') = Cardinality(cameras) + 1
                /\ \A f \in Fields : row[f] = body[f]
                /\ row.nulls = {}
                /\ \A r \in cameras : r.id # row.id
                /\ answer.cameras = {row}
                /\ {r \in cameras' : r.id = row.id} = {row}]_vars

\* A create succeeded while another camera was stored.
C8_Witness ==
    /\ Answered("create")
    /\ resp.status = 201
    /\ \E row \in resp.cameras : \E r \in cameras : r.id # row.id

\* C9: a create that has passed the duplicate check succeeds and inserts its
\* camera whatever other creates have inserted since, so that two concurrent
\* creates of one intersection that both pass the check both succeed and
\* leave two cameras with that triple.
C9_CheckedCreateSucceeds ==
    [][\A t \in Threads :
        thread[t].pc = "checked" /\ thread'[t].pc = "responded" =>
            /\ thread'[t].resp.status = 201
            /\ \E row \in cameras' \ cameras :
                   /\ SameIntersection(row, thread[t].req.body)
                   /\ cameras' = cameras \cup {row}
                   /\ thread'[t].resp.cameras = {row}]_vars

\* Two creates of one intersection, in flight together, both answered 201 and
\* two cameras with that triple are stored.
C9_Witness ==
    \E t1, t2 \in Threads :
        /\ t1 # t2
        /\ thread[t1].pc = "responded" /\ thread[t1].resp.status = 201
        /\ thread[t2].pc = "responded" /\ thread[t2].resp.status = 201
        /\ SameIntersection(thread[t1].req.body, thread[t2].req.body)
        /\ \E r1, r2 \in cameras :
               /\ r1 # r2
               /\ SameIntersection(r1, thread[t1].req.body)
               /\ SameIntersection(r2, thread[t1].req.body)

\* Every field of row r is present and within the data model's constraints.
WellFormed(r) ==
    /\ r.nulls = {}
    /\ Len(r.cross_street_1) \in 1..100
    /\ Len(r.cross_street_2) \in 1..100
    /\ Len(r.zipcode) = 5
    /\ \A i \in 1..Len(r.zipcode) : r.zipcode[i] \in AsciiDigits \cup UnicodeDecimals
    /\ r.speed_limit \in 5..85
    /\ r.direction \in {"N", "S", "E", "W", "NE", "NW", "SE", "SW"}

====
